---- MODULE Spec2Model ----
(***************************************************************************)
(* HexGrid of boardgame.io (src/src/ui/hex.js, the range-highlighting      *)
(* grid, and src/unnamed/part_000, the earlier grid without a range).      *)
(*                                                                         *)
(* JavaScript values are tagged records so that a read of a missing        *)
(* property (undefined), arithmetic on it (NaN) and the template-string    *)
(* conversion of both are computed as the engine computes them.            *)
(***************************************************************************)
EXTENDS Integers, Sequences, FiniteSets, TLC

\* ---------------------------------------------------------------- bounds
\* largest `levels` prop of a mounted grid
MaxLevels == 1
\* largest `range` prop of a mounted grid (the smallest tried is -1)
MaxRange == 1
\* centres handed to the pure functions have |x|, |y| <= MaxCoord
MaxCoord == 2
\* largest range handed to the range query on its own
MaxQueryRange == 3
\* largest `levels` handed to _getGrid on its own
MaxGridLevels == 3

VARIABLES
  levels,     \* props.levels
  outline,    \* props.outline
  range,      \* props.range
  handlers,   \* which of props.onClick / onMouseOver / onMouseOut the host passed
  children,   \* props.children: the single Token element, {props: {x, y, z}}
  colorMap,   \* state.colorMap: key -> colour; its keys are the highlighted set
  pc,         \* "constructed" (after the constructor), then "idle" (mounted and
              \* waiting for an event) or "handled" (a handler has just run)
  called,     \* the host callbacks the handler that just ran invoked, in order
  probe       \* the most recent direct call of a pure function and its result

vars == <<levels, outline, range, handlers, children, colorMap, pc, called, probe>>

\* ------------------------------------------------------ JavaScript values
Num(n) == [t |-> "number", v |-> n]
Undefined == [t |-> "undefined", v |-> 0]
NaN == [t |-> "NaN", v |-> 0]

IsNum(a) == a.t = "number"

\* a + b, a - b, -a on numbers; undefined converts to NaN and NaN propagates
Plus(a, b) == IF IsNum(a) /\ IsNum(b) THEN Num(a.v + b.v) ELSE NaN
Minus(a, b) == IF IsNum(a) /\ IsNum(b) THEN Num(a.v - b.v) ELSE NaN
Negate(a) == IF IsNum(a) THEN Num(0 - a.v) ELSE NaN

\* `${a}`: the string conversion of a template literal
Template(a) == IF IsNum(a) THEN ToString(a.v) ELSE a.t

\* obj.name, or `const {name} = obj`: undefined when obj has no such property
GetProp(obj, name) == IF name \in DOMAIN obj THEN obj[name] ELSE Undefined

Max(a, b) == IF a > b THEN a ELSE b
Min(a, b) == IF a < b THEN a ELSE b
Abs(a) == IF a < 0 THEN 0 - a ELSE a

RECURSIVE Flatten(_)
\* the pushes of an outer loop, row after row
Flatten(rows) == IF rows = <<>> THEN <<>> ELSE Head(rows) \o Flatten(Tail(rows))

EmptyMap == [k \in {} |-> "white"]

\* ------------------------------------------------- hex.js: the range grid
\* `${grid.x},${grid.y},${grid.z}`
Key(grid) ==
  Template(GetProp(grid, "x")) \o "," \o Template(GetProp(grid, "y"))
    \o "," \o Template(GetProp(grid, "z"))

\* the range query had dy run over the whole square -rng..rng
_getNearGridsSquare(args, rng) ==
  LET x == GetProp(args, "x")
      y == GetProp(args, "y")
      Row(dx) ==
        [j \in 1..(2 * rng + 1) |->
           LET dy == 0 - rng + j - 1
           IN [x |-> Plus(x, Num(dx)),
               y |-> Plus(y, Num(dy)),
               z |-> Minus(Minus(Minus(Negate(x), y), Num(dx)), Num(dy))]]
      rows == [i \in 1..(2 * rng + 1) |-> Row(0 - rng + i - 1)]
  IN Append(Flatten(rows), args)

_getNearGrids(args, rng) ==
  LET x == GetProp(args, "x")
      y == GetProp(args, "y")
      Row(dx) ==
        LET minDy == Max(0 - rng, 0 - dx - rng)
            maxDy == Min(rng, 0 - dx + rng)
        IN [j \in 1..(maxDy - minDy + 1) |->
              LET dy == minDy + j - 1
              IN [x |-> Plus(x, Num(dx)),
                  y |-> Plus(y, Num(dy)),
                  z |-> Minus(Minus(Minus(Negate(x), y), Num(dx)), Num(dy))]]
      rows == [i \in 1..(2 * rng + 1) |-> Row(0 - rng + i - 1)]
  IN Append(Flatten(rows), args)

getLimitNeighbors(center, rng) ==
  IF center = Undefined
    THEN Undefined
    ELSE LET ret == _getNearGrids(center, rng)
         IN [k \in {Key(ret[i]) : i \in DOMAIN ret} |-> "#22ff66"]

inRange(target, center, rng) ==
  Key(target) \in DOMAIN getLimitNeighbors(center, rng)

_getCellColor(x, y, z, cmap) ==
  LET key == Key([x |-> x, y |-> y, z |-> z])
  IN IF key \in DOMAIN cmap THEN cmap[key] ELSE "white"

\* the outline had the test of |z| left out
_getGridSquare(lv, ol, cmap) ==
  IF ~ol
    THEN <<>>
    ELSE LET r == lv
             Row(x) ==
               [j \in 1..(2 * r + 1) |->
                  LET y == 0 - r + j - 1
                      z == 0 - x - y
                  IN [key |-> ToString(x) \o ":" \o ToString(y) \o ":" \o ToString(z),
                      fill |-> _getCellColor(Num(x), Num(y), Num(z), cmap),
                      x |-> Num(x), y |-> Num(y), z |-> Num(z)]]
         IN Flatten([i \in 1..(2 * r + 1) |-> Row(0 - r + i - 1)])

\* the Hex elements of the outline, in push order; null (nothing rendered) is <<>>
_getGrid(lv, ol, cmap) ==
  IF ~ol
    THEN <<>>
    ELSE LET r == lv
             Row(x) ==
               LET ys == [j \in 1..(2 * r + 1) |-> 0 - r + j - 1]
                   kept == SelectSeq(ys, LAMBDA y : ~(Abs(0 - x - y) > r))
               IN [j \in DOMAIN kept |->
                     LET y == kept[j]
                         z == 0 - x - y
                     IN [key |-> ToString(x) \o ":" \o ToString(y) \o ":" \o ToString(z),
                         fill |-> _getCellColor(Num(x), Num(y), Num(z), cmap),
                         x |-> Num(x), y |-> Num(y), z |-> Num(z)]]
         IN Flatten([i \in 1..(2 * r + 1) |-> Row(0 - r + i - 1)])

\* what Hex.onClick / onMouseOver / onMouseOut pass up: {x, y, z} of the Hex's props
HexArgs(hex) == [x |-> hex.x, y |-> hex.y, z |-> hex.z]

\* the arguments the rendered Hexes can send
HexCells ==
  LET hexes == _getGrid(levels, outline, colorMap)
  IN {HexArgs(hexes[i]) : i \in DOMAIN hexes}

\* -------------------------------------------- part_000: the grid without range
\* the six neighbours had the step on y of the fourth one go the wrong way
_getNearGrids6Slip(args) ==
  LET x == GetProp(args, "x")
      y == GetProp(args, "y")
      z == GetProp(args, "z")
  IN << [x |-> Minus(x, Num(1)), y |-> y, z |-> Plus(z, Num(1))],
        [x |-> Minus(x, Num(1)), y |-> Plus(y, Num(1)), z |-> z],
        [x |-> x, y |-> Minus(y, Num(1)), z |-> Plus(z, Num(1))],
        [x |-> Plus(x, Num(1)), y |-> Plus(y, Num(1)), z |-> z],
        [x |-> x, y |-> Plus(y, Num(1)), z |-> Minus(z, Num(1))],
        [x |-> Plus(x, Num(1)), y |-> y, z |-> Minus(z, Num(1))] >>

_getNearGrids6(args) ==
  LET x == GetProp(args, "x")
      y == GetProp(args, "y")
      z == GetProp(args, "z")
  IN << [x |-> Minus(x, Num(1)), y |-> y, z |-> Plus(z, Num(1))],
        [x |-> Minus(x, Num(1)), y |-> Plus(y, Num(1)), z |-> z],
        [x |-> x, y |-> Minus(y, Num(1)), z |-> Plus(z, Num(1))],
        [x |-> Plus(x, Num(1)), y |-> Minus(y, Num(1)), z |-> z],
        [x |-> x, y |-> Plus(y, Num(1)), z |-> Minus(z, Num(1))],
        [x |-> Plus(x, Num(1)), y |-> y, z |-> Minus(z, Num(1))] >>

\* ------------------------------------------------------------ the grid
HandlerNames == {"onClick", "onMouseOver", "onMouseOut"}

\* a cube coordinate built from two free axes
Cube(a, b) == [x |-> Num(a), y |-> Num(b), z |-> Num(0 - a - b)]

\* the cells of a board of `lv` levels: where the host may put its token
BoardCoords(lv) ==
  {c \in {Cube(a, b) : a, b \in (0 - lv)..lv} : Abs(c.z.v) <= lv}

\* constructor: state.colorMap = props.colorMap (defaultProps: {})
Init ==
  /\ levels \in 0..MaxLevels
  /\ outline \in BOOLEAN
  /\ range \in (0 - 1)..MaxRange
  /\ handlers \in SUBSET HandlerNames
  /\ children \in {[props |-> p] : p \in BoardCoords(levels)}
  /\ colorMap \in {EmptyMap, [k \in {"0,0,0"} |-> "red"]}
  /\ pc = "constructed"
  /\ called = <<>>
  /\ probe = [fn |-> "none"]

_highlightNeighbor(cmap) == colorMap' = cmap

componentWillMount ==
  /\ pc = "constructed"
  /\ LET tokens == children
         highlightRange == getLimitNeighbors(tokens, range)
     IN _highlightNeighbor(highlightRange)
  /\ pc' = "idle"
  /\ called' = <<>>
  /\ UNCHANGED <<levels, outline, range, handlers, children, probe>>

onClick(args) ==
  /\ pc = "idle"
  /\ IF "onClick" \in handlers
       THEN LET tokens == children
            IN IF inRange(args, GetProp(tokens, "props"), range)
                 THEN /\ _highlightNeighbor(getLimitNeighbors(args, range))
                      /\ called' = <<[cb |-> "onClick", args |-> args]>>
                 ELSE /\ UNCHANGED colorMap
                      /\ called' = <<>>
       ELSE /\ UNCHANGED colorMap
            /\ called' = <<>>
  /\ pc' = "handled"
  /\ UNCHANGED <<levels, outline, range, handlers, children, probe>>

\* the hover handler had the range test of onClick in front of its callback
onMouseOverGated(args) ==
  /\ pc = "idle"
  /\ called' = IF "onMouseOver" \in handlers
                    /\ inRange(args, GetProp(children, "props"), range)
                 THEN <<[cb |-> "onMouseOver", args |-> args]>>
                 ELSE <<>>
  /\ pc' = "handled"
  /\ UNCHANGED <<levels, outline, range, handlers, children, colorMap, probe>>

onMouseOver(args) ==
  /\ pc = "idle"
  /\ called' = IF "onMouseOver" \in handlers
                 THEN <<[cb |-> "onMouseOver", args |-> args]>>
                 ELSE <<>>
  /\ pc' = "handled"
  /\ UNCHANGED <<levels, outline, range, handlers, children, colorMap, probe>>

onMouseOut(args) ==
  /\ pc = "idle"
  /\ called' = IF "onMouseOut" \in handlers
                 THEN <<[cb |-> "onMouseOut", args |-> args]>>
                 ELSE <<>>
  /\ pc' = "handled"
  /\ UNCHANGED <<levels, outline, range, handlers, children, colorMap, probe>>

\* the host, told of a click by onClick, re-renders the grid with its Token
\* at the clicked cell (a host may also leave the Token where it is)
HostMovesToken ==
  /\ pc = "handled"
  /\ called # <<>>
  /\ called[1].cb = "onClick"
  /\ children.props # called[1].args
  /\ children' = [props |-> called[1].args]
  /\ UNCHANGED <<levels, outline, range, handlers, colorMap, pc, called, probe>>

\* the event has been dispatched; the grid waits for the next one
EventDone ==
  /\ pc = "handled"
  /\ pc' = "idle"
  /\ called' = <<>>
  /\ UNCHANGED <<levels, outline, range, handlers, children, colorMap, probe>>

Next ==
  \/ componentWillMount
  \/ \E a \in HexCells : onClick(a)
  \/ \E a \in HexCells : onMouseOver(a)
  \/ \E a \in HexCells : onMouseOut(a)
  \/ HostMovesToken
  \/ EventDone

Spec == Init /\ [][Next]_vars

\* ------------------------------------------- the pure functions on their own
Centers == {Cube(a, b) : a, b \in (0 - MaxCoord)..MaxCoord}

ProbeMaps ==
  {EmptyMap} \cup {getLimitNeighbors(c, r) : c \in {Cube(0, 0), Cube(1, 0)}, r \in 0..1}

InitPure ==
  /\ levels = 0
  /\ outline = TRUE
  /\ range = 0
  /\ handlers = {}
  /\ children = [props |-> Cube(0, 0)]
  /\ colorMap = EmptyMap
  /\ pc = "constructed"
  /\ called = <<>>
  /\ probe = [fn |-> "none"]

CallGetNearGrids(c, r) ==
  /\ probe' = [fn |-> "_getNearGrids", args |-> c, range |-> r,
               result |-> _getNearGrids(c, r)]
  /\ UNCHANGED <<levels, outline, range, handlers, children, colorMap, pc, called>>

CallGetNearGrids6(c) ==
  /\ probe' = [fn |-> "_getNearGrids6", args |-> c, result |-> _getNearGrids6(c)]
  /\ UNCHANGED <<levels, outline, range, handlers, children, colorMap, pc, called>>

CallGetGrid(lv, ol, cmap) ==
  /\ probe' = [fn |-> "_getGrid", levels |-> lv, outline |-> ol, colorMap |-> cmap,
               result |-> _getGrid(lv, ol, cmap)]
  /\ UNCHANGED <<levels, outline, range, handlers, children, colorMap, pc, called>>

NextPure ==
  \/ \E c \in Centers, r \in 0..MaxQueryRange : CallGetNearGrids(c, r)
  \/ \E c \in Centers : CallGetNearGrids6(c)
  \/ \E lv \in 0..MaxGridLevels, ol \in BOOLEAN, cmap \in ProbeMaps : CallGetGrid(lv, ol, cmap)

SpecPure == InitPure /\ [][NextPure]_vars

\* ------------------------------------------------ vocabulary of the claims
\* hex distance of two cube coordinates: half the sum of the absolute differences
hexDistance(a, b) ==
  (Abs(a.x.v - b.x.v) + Abs(a.y.v - b.y.v) + Abs(a.z.v - b.z.v)) \div 2

\* three numbers that sum to zero
IsCube(p) ==
  /\ DOMAIN p = {"x", "y", "z"}
  /\ IsNum(p.x) /\ IsNum(p.y) /\ IsNum(p.z)
  /\ p.x.v + p.y.v + p.z.v = 0

\* the valid coordinates around c that differ from it by at most n on x and y
Around(c, n) == {Cube(c.x.v + a, c.y.v + b) : a, b \in (0 - n)..n}

\* the disk of radius r around c, by distance
Disk(c, r) == {p \in Around(c, r) : hexDistance(c, p) <= r}

DiskKeys(c, r) == {Key(p) : p \in Disk(c, r)}

HexCount(n) == 3 * n * n + 3 * n + 1

Highlighted == DOMAIN colorMap

ClickCall(a) == <<[cb |-> "onClick", args |-> a]>>

\* ------------------------------------------------------------- the claims

\* C1: a click on a cell that is not in the highlighted set is rejected: the
\* highlighted set stays as it is and the host's onClick is not called.
ClickOutsideHighlightIsRejected ==
  [][\A a \in HexCells :
       (range >= 0 /\ onClick(a) /\ Key(a) \notin Highlighted)
         => (colorMap' = colorMap /\ called' = <<>>)]_vars

\* C2: a click on a highlighted cell is accepted: the highlighted set becomes
\* exactly the disk of radius `range` around the clicked cell and the host's
\* onClick is called once, with that cell.
ClickInsideHighlightIsAccepted ==
  [][\A a \in HexCells :
       (range >= 0 /\ "onClick" \in handlers /\ onClick(a) /\ Key(a) \in Highlighted)
         => (DOMAIN colorMap' = DiskKeys(a, range) /\ called' = ClickCall(a))]_vars

\* C3: right after mount, before any event, the highlighted set is the disk of
\* radius `range` around the Token's position.
MountHighlightsTokenDisk ==
  [][(range >= 0 /\ pc = "constructed" /\ pc' = "idle")
       => DOMAIN colorMap' = DiskKeys(children.props, range)]_vars

\* C4: a valid coordinate p is among the coordinates _getNearGrids(c, r) returns
\* exactly when hexDistance(c, p) <= r; the centre is always among them.
RangeQueryIsTheDisk ==
  probe.fn = "_getNearGrids" =>
    LET c == probe.args
        r == probe.range
        emitted == {probe.result[i] : i \in DOMAIN probe.result}
    IN /\ \A g \in emitted : IsCube(g) /\ g \in Around(c, r)
       /\ \A p \in Around(c, r + 1) : (p \in emitted) <=> (hexDistance(c, p) <= r)
       /\ c \in emitted

RangeQueryIsTheDiskWitness ==
  /\ probe.fn = "_getNearGrids"
  /\ probe.range = 2
  /\ probe.args = Cube(1, 0 - 2)
  /\ \E i \in DOMAIN probe.result : probe.result[i] = Cube(3, 0 - 4)
  /\ \A i \in DOMAIN probe.result : probe.result[i] # Cube(3, 0 - 1)

\* C5: the result of _getNearGrids(c, r) has size exactly 3*r*r + 3*r + 1.
RangeQuerySizeIsHexCount ==
  probe.fn = "_getNearGrids" => Len(probe.result) = HexCount(probe.range)

\* C6: a hover event never changes the highlighted set or the centre, and is
\* passed to the host's hover callback with the hovered cell whether or not
\* that cell is highlighted.
HoverOnlyForwards ==
  [][\A a \in HexCells :
       /\ onMouseOver(a) =>
            /\ colorMap' = colorMap /\ children' = children /\ range' = range
            /\ "onMouseOver" \in handlers
                 => called' = <<[cb |-> "onMouseOver", args |-> a]>>
       /\ onMouseOut(a) =>
            /\ colorMap' = colorMap /\ children' = children /\ range' = range
            /\ "onMouseOut" \in handlers
                 => called' = <<[cb |-> "onMouseOut", args |-> a]>>]_vars

\* a hover over a cell outside a highlighted set that an accepted click made
HoverOnlyForwardsWitness ==
  /\ pc = "handled"
  /\ called # <<>>
  /\ called[1].cb = "onMouseOver"
  /\ Key(called[1].args) \notin Highlighted
  /\ range = 1
  /\ Highlighted = DiskKeys(Cube(1, 0), 1)

\* C7: a grid with a negative range never holds a highlighted set of its own
\* making and never accepts a click.
NegativeRangeIsRejected ==
  range < 0 =>
    /\ ~(pc # "constructed" /\ Highlighted # {})
    /\ ~(called # <<>> /\ called[1].cb = "onClick")

\* C8: every coordinate the grid holds sums to zero: each member of the
\* highlighted set and each cell of the outline is x,y,z with x + y + z = 0.
CoordinatesSumToZero ==
  (range >= 0 /\ pc # "constructed") =>
    /\ \A k \in Highlighted :
         \E p \in Around(Cube(0, 0), levels + Max(range, 0) + 1) : k = Key(p)
    /\ \A h \in HexCells : IsCube(h)

\* C9: the outline cells of _getGrid are exactly the cube coordinates with
\* max(|x|,|y|,|z|) <= levels, each once (3*levels^2 + 3*levels + 1 of them),
\* whatever the highlighted set is.
OutlineIsTheHexagon ==
  (probe.fn = "_getGrid" /\ probe.outline) =>
    LET n == probe.levels
        res == probe.result
        plain == _getGrid(n, TRUE, EmptyMap)
    IN /\ {HexArgs(res[i]) : i \in DOMAIN res}
            = {p \in Around(Cube(0, 0), n + 1) :
                 Max(Abs(p.x.v), Max(Abs(p.y.v), Abs(p.z.v))) <= n}
       /\ Len(res) = HexCount(n)
       /\ \A i, j \in DOMAIN res : HexArgs(res[i]) = HexArgs(res[j]) => i = j
       /\ [i \in DOMAIN res |-> HexArgs(res[i])] = [i \in DOMAIN plain |-> HexArgs(plain[i])]

\* an outline of two levels drawn over a highlighted set that colours some cell
OutlineIsTheHexagonWitness ==
  /\ probe.fn = "_getGrid"
  /\ probe.outline
  /\ probe.levels = 2
  /\ \E i \in DOMAIN probe.result : probe.result[i].fill = "#22ff66"
  /\ \E i \in DOMAIN probe.result : probe.result[i].fill = "white"

\* C10: _getNearGrids of the grid without range returns the six neighbours
\* (x-1,y,z+1), (x-1,y+1,z), (x,y-1,z+1), (x+1,y-1,z), (x,y+1,z-1), (x+1,y,z-1)
\* in this order, pairwise distinct, each at hex distance 1.
SixNeighboursInOrder ==
  probe.fn = "_getNearGrids6" =>
    LET c == probe.args
        x == c.x.v
        y == c.y.v
        z == c.z.v
        res == probe.result
        P(a, b, d) == [x |-> Num(a), y |-> Num(b), z |-> Num(d)]
    IN /\ res = << P(x - 1, y, z + 1), P(x - 1, y + 1, z), P(x, y - 1, z + 1),
                   P(x + 1, y - 1, z), P(x, y + 1, z - 1), P(x + 1, y, z - 1) >>
       /\ \A i \in DOMAIN res : IsCube(res[i]) /\ hexDistance(c, res[i]) = 1
       /\ Cardinality({res[i] : i \in DOMAIN res}) = 6

SixNeighboursInOrderWitness ==
  /\ probe.fn = "_getNearGrids6"
  /\ probe.args = Cube(2, 0 - 1)
  /\ probe.result[4] = Cube(3, 0 - 2)

====
